---- MODULE Spec2Model ----
(***************************************************************************)
(* Model of bigolchungus.cpp: the windowed nonce search of main, its       *)
(* verification guard, and the per-lane reference search ref_search_nonce. *)
(*                                                                         *)
(* 64-bit unsigned values (uint64_t, size_t) are sequences of 8 bytes,     *)
(* least significant byte first, which is also the byte order in which     *)
(* blake2s_update(&state, &nonce, 8) reads a nonce on the target machine.  *)
(* 32-bit int values are TLA+ integers in -2^31 .. 2^31-1.                 *)
(***************************************************************************)
EXTENDS Integers, Sequences, FiniteSets, TLC

\* ------------------------------------------------------------------ bounds
\* Largest number of loop iterations (continue_search calls) explored.
MaxSteps == 5
\* Largest window, in nonces, that the contract's answer is computed for.
MaxScan == 4
\* Largest number of lanes and of nonces per lane in the reference search.
MaxLanes == 3
MaxWorkSet == 3

\* ------------------------------------------------- 64-bit unsigned values
U64(n) ==
  << n % 256, (n \div 256) % 256, (n \div 65536) % 256,
     (n \div 16777216) % 256, 0, 0, 0, 0 >>

Zero64 == U64(0)

\* Conversion of a 32-bit int to a 64-bit unsigned value (sign extension).
IntToU64(x) ==
  IF x >= 0 THEN U64(x)
  ELSE LET y == (x + 2147483647) + 1
       IN << y % 256, (y \div 256) % 256, (y \div 65536) % 256,
             ((y \div 16777216) % 256) + 128, 255, 255, 255, 255 >>

RECURSIVE AddFrom(_, _, _, _, _)
AddFrom(a, b, i, carry, acc) ==
  IF i > 8 THEN << acc, carry >>
  ELSE LET t == a[i] + b[i] + carry
       IN AddFrom(a, b, i + 1, t \div 256, Append(acc, t % 256))

\* a + b in uint64_t arithmetic (modulo 2^64).
Add64(a, b) == AddFrom(a, b, 1, 0, << >>)[1]

\* TRUE iff the mathematical sum a + b does not fit in 64 bits.
AddOverflows(a, b) == AddFrom(a, b, 1, 0, << >>)[2] = 1

RECURSIVE ColSum(_, _, _, _)
ColSum(a, b, k, i) ==
  IF i > 8 THEN 0
  ELSE (IF k - i + 1 >= 1 /\ k - i + 1 <= 8 THEN a[i] * b[k - i + 1] ELSE 0)
       + ColSum(a, b, k, i + 1)

RECURSIVE MulFrom(_, _, _, _, _)
MulFrom(a, b, k, carry, acc) ==
  IF k > 16 THEN acc
  ELSE LET t == ColSum(a, b, k, 1) + carry
       IN MulFrom(a, b, k + 1, t \div 256, Append(acc, t % 256))

\* The full 128-bit product of two 64-bit values, 16 bytes.
MulFull(a, b) == MulFrom(a, b, 1, 0, << >>)

\* a * b in uint64_t / size_t arithmetic (modulo 2^64).
Mul64(a, b) == SubSeq(MulFull(a, b), 1, 8)

\* TRUE iff the mathematical product a * b does not fit in 64 bits.
MulOverflows(a, b) == SubSeq(MulFull(a, b), 9, 16) # << 0, 0, 0, 0, 0, 0, 0, 0 >>

RECURSIVE LtFrom(_, _, _)
LtFrom(a, b, i) ==
  IF i = 0 THEN FALSE
  ELSE IF a[i] # b[i] THEN a[i] < b[i]
  ELSE LtFrom(a, b, i - 1)

\* a < b as unsigned 64-bit values.
Lt64(a, b) == LtFrom(a, b, 8)

\* Value of a 64-bit quantity known to be below 65536.
Small(a) == a[1] + 256 * a[2]

IsSmall(a, bound) == (\A i \in 3..8 : a[i] = 0) /\ Small(a) <= bound

\* ------------------------------------------------------ external functions
\* hexchar2int of common.h: the value of one hexadecimal digit. What it does
\* with any other character is stated nowhere, and no such character is
\* among the inputs.
hexchar2int(c) ==
  CASE c = "0" -> 0 [] c = "1" -> 1 [] c = "2" -> 2 [] c = "3" -> 3
    [] c = "4" -> 4 [] c = "5" -> 5 [] c = "6" -> 6 [] c = "7" -> 7
    [] c = "8" -> 8 [] c = "9" -> 9 [] c = "a" -> 10 [] c = "b" -> 11
    [] c = "c" -> 12 [] c = "d" -> 13 [] c = "e" -> 14 [] c = "f" -> 15
    [] c = "A" -> 10 [] c = "B" -> 11 [] c = "C" -> 12 [] c = "D" -> 13
    [] c = "E" -> 14 [] c = "F" -> 15

\* compare_uint256 of common.h: order of two 256-bit values given as 32 bytes,
\* most significant byte first: -1 if a < b, 0 if a = b, 1 if a > b.
RECURSIVE CompareFrom(_, _, _)
CompareFrom(a, b, i) ==
  IF i > 32 THEN 0
  ELSE IF a[i] < b[i] THEN -1
  ELSE IF a[i] > b[i] THEN 1
  ELSE CompareFrom(a, b, i + 1)

compare_uint256(a, b) == CompareFrom(a, b, 1)

\* The digest function of blake2s_ref.h (blake2s_init, blake2s_update ...,
\* blake2s_final with 32 output bytes) applied to the concatenation of the
\* updates: a deterministic function of the byte sequence, sensitive to the
\* order and the value of every byte.
RECURSIVE Absorb(_, _, _)
Absorb(bytes, lo, hi) ==
  IF lo > hi THEN 0
  ELSE IF lo = hi
       THEN ((bytes[lo] + 1) * ((lo * lo + 7 * lo + 1) % 65521)) % 65521
  ELSE LET mid == (lo + hi) \div 2
       IN (Absorb(bytes, lo, mid) + Absorb(bytes, mid + 1, hi)) % 65521

blake2s(bytes) ==
  LET h == Absorb(bytes, 1, Len(bytes))
  IN [k \in 1..32 |-> ((h \div k) + 17 * (k - 1)) % 256]

\* The Hash Oracle: the digest of a nonce embedded in a header of the given
\* length. Prefix mode hashes the 8 nonce bytes, then header bytes [8, len);
\* suffix mode hashes header bytes [0, len - 8), then the 8 nonce bytes.
HashOracleInput(nonce, header, len, suffix) ==
  IF suffix THEN SubSeq(header, 1, len - 8) \o nonce
  ELSE nonce \o SubSeq(header, 9, len)

HashOracle(nonce, header, len, suffix) ==
  blake2s(HashOracleInput(nonce, header, len, suffix))

\* The Digest Comparator: pass iff the candidate digest is at most the target.
Passes(target, digest) == compare_uint256(target, digest) # -1

\* ------------------------------------------------------------------ inputs
Rep(c, n) == [i \in 1..n |-> c]

\* Command-line target strings (argv[optind]), one character per element.
TargetStrings ==
  { Rep("f", 64),
    <<"7", "f">> \o Rep("f", 62),
    Rep("0", 62) \o <<"0", "1">>,
    Rep("f", 63),
    Rep("f", 65) }

\* Byte streams on standard input.
HeaderStream(len, kind) ==
  [i \in 1..len |-> IF kind = "zero" THEN 0 ELSE (7 * i + 3) % 256]

StdinStreams ==
  { HeaderStream(7, "ramp"),
    HeaderStream(256, "ramp"),
    HeaderStream(321, "ramp"),
    HeaderStream(4097, "zero"),
    HeaderStream(257, "zero"),
    HeaderStream(257, "ramp"),
    HeaderStream(320, "ramp") }

\* Values of -g and -w (std::stoi results, 32-bit int).
GlobalSizes == {-1, 0, 1, 2, 2147483647}
WorkSetSizes == {1, 2, 2147483647}
LocalSizes == {256}

\* A numeric option argument as std::stoi sees it: whether it starts with a
\* number at all, the number's sign and the number's magnitude.
Num(v) ==
  [digits |-> TRUE, neg |-> v < 0,
   mag |-> IF v < 0 THEN IntToU64(-v) ELSE IntToU64(v)]

\* An argument such as "abc" or "": no conversion can be performed.
NotANumber == [digits |-> FALSE, neg |-> FALSE, mag |-> Zero64]

\* The argument "2147483648": a number an int cannot hold.
TooBig == [digits |-> TRUE, neg |-> FALSE, mag |-> << 0, 0, 0, 128, 0, 0, 0, 0 >>]

\* Arguments of -g, -w, -l and -d.
GlobalSizeArgs == { Num(v) : v \in GlobalSizes } \cup { NotANumber, TooBig }
WorkSetSizeArgs == { Num(v) : v \in WorkSetSizes } \cup { NotANumber }
LocalSizeArgs == { Num(v) : v \in LocalSizes } \cup { NotANumber }
DeviceArgs == { Num(0), NotANumber }

\* Arguments of -n: a hexadecimal number with an optional minus sign.
NonceArgs ==
  { [digits |-> TRUE, neg |-> FALSE, mag |-> U64(0)],
    [digits |-> TRUE, neg |-> TRUE, mag |-> U64(1)],
    [digits |-> TRUE, neg |-> FALSE, mag |-> << 0, 0, 0, 0, 1, 0, 0, 0 >>],
    NotANumber }

\* Shapes of the command line: no argument at all (argc = 1), -h among the
\* options, an option getopt rejects (unknown, or its argument missing), or
\* options getopt accepts.
ArgvForms == { "no_arguments", "help", "invalid_option", "options" }

\* argv[optind]: << >> when no operand follows the options (a null pointer),
\* else the operand.
TargetOperands == { << >> } \cup { << str >> : str \in TargetStrings }

\* Eight bytes read from /dev/urandom.
EntropySeeds ==
  { << 254, 255, 255, 255, 255, 255, 255, 255 >>,
    << 1, 2, 3, 4, 5, 6, 7, 8 >> }

\* Reads from /dev/urandom that end before 8 bytes.
ShortReads == { << 9, 9, 9 >> }

\* ------------------------------------------------------------------- state
VARIABLES
  pc,               \* position of main
  globalSize, workSetSize, localWorkSize,   \* int options
  nonceOverridden, nonceOverride, alternativeNonce,
  target_hash,      \* 32 bytes
  buf, bufsize, last_block_size,
  global_size, local_size, workset_size, nonce_step_size,
  start_nonce, steps, found,
  stdout,           \* what printf wrote: <<>> or one record
  exitStatus,       \* <<>> while running, <<status>> once the process ended
  initCalls,        \* arguments of each backend.start_search call
  calls,            \* argument of each backend.continue_search call
  honoured,         \* every answer so far is the one the dispatch contract prescribes
  nonce_arg,        \* the argument of -n: << >> or one record
  target_str,       \* argv[optind] as read_target_bytes received it
  stdin,            \* the byte stream fread consumed
  seed_bytes,       \* number of bytes fread obtained from /dev/urandom
  ref_start, ref_work_set, ref_lanes,   \* arguments of the ref_search_nonce calls
  lane_i,           \* loop counter i of each lane gid of ref_search_nonce
  result,           \* the array behind result_ptr
  evaluated,        \* per lane, the nonces hashed so far, in order
  slot_writers      \* per result slot, the lanes that wrote it, in order

vars == << pc, globalSize, workSetSize, localWorkSize, nonceOverridden,
           nonceOverride, alternativeNonce, target_hash, buf, bufsize,
           last_block_size, global_size, local_size, workset_size,
           nonce_step_size, start_nonce, steps, found, stdout, exitStatus,
           initCalls, calls, honoured, nonce_arg, target_str, stdin,
           seed_bytes, ref_start, ref_work_set, ref_lanes, lane_i, result,
           evaluated, slot_writers >>

refvars == << ref_start, ref_work_set, ref_lanes, lane_i, result, evaluated,
              slot_writers >>

envvars == << nonce_arg, target_str, stdin, seed_bytes >>

Init ==
  /\ pc = "args"
  /\ globalSize = 1024 * 1024 * 16
  /\ workSetSize = 64
  /\ localWorkSize = 256
  /\ nonceOverridden = FALSE
  /\ nonceOverride = 0
  /\ alternativeNonce = FALSE
  /\ target_hash = << >>
  /\ buf = << >>
  /\ bufsize = 0
  /\ last_block_size = 0
  /\ global_size = Zero64
  /\ local_size = Zero64
  /\ workset_size = Zero64
  /\ nonce_step_size = Zero64
  /\ start_nonce = Zero64
  /\ steps = 0
  /\ found = Zero64
  /\ stdout = << >>
  /\ exitStatus = << >>
  /\ initCalls = << >>
  /\ calls = << >>
  /\ honoured = TRUE
  /\ nonce_arg = << >>
  /\ target_str = << >>
  /\ stdin = << >>
  /\ seed_bytes = 0
  /\ ref_start = Zero64
  /\ ref_work_set = Zero64
  /\ ref_lanes = 0
  /\ lane_i = << >>
  /\ result = << >>
  /\ evaluated = << >>
  /\ slot_writers = << >>

\* ------------------------------------------------------------------ main
BUF_SIZE == 4096

\* abort() after a failed assertion: the process ends on SIGABRT.
Abort ==
  /\ pc' = "aborted"
  /\ exitStatus' = << 134 >>

\* std::stoi(optarg, 0, 16) returns an int: TRUE iff the argument's value is
\* in -2^31 .. 2^31 - 1; otherwise std::stoi throws std::out_of_range.
StoiFits(a) ==
  /\ \A i \in 5..8 : a.mag[i] = 0
  /\ \/ a.mag[4] < 128
     \/ (a.neg /\ a.mag = << 0, 0, 0, 128, 0, 0, 0, 0 >>)

StoiValue(a) ==
  IF a.mag[4] >= 128 THEN -2147483647 - 1
  ELSE LET m == a.mag[1] + 256 * a.mag[2] + 65536 * a.mag[3]
                + 16777216 * a.mag[4]
       IN IF a.neg THEN -m ELSE m

\* std::stoi throws std::invalid_argument when no conversion can be
\* performed and std::out_of_range when the value does not fit an int.
StoiThrows(a) == ~a.digits \/ ~StoiFits(a)

\* usage(); exit(1), lines 107-110 and 157-161.
Usage ==
  /\ pc' = "usage"
  /\ exitStatus' = << 1 >>

\* A read through a null pointer: the process ends on SIGSEGV.
Crash ==
  /\ pc' = "aborted"
  /\ exitStatus' = << 139 >>

\* The argc test and option parsing, lines 107-163. An exception std::stoi
\* throws is not caught: std::terminate ends the process.
ParseArgs ==
  /\ pc = "args"
  /\ \E form \in ArgvForms :
       IF form # "options"
       THEN /\ Usage
            /\ UNCHANGED << globalSize, workSetSize, localWorkSize,
                            nonceOverridden, nonceOverride, alternativeNonce,
                            nonce_arg >>
       ELSE \E g \in GlobalSizeArgs, w \in WorkSetSizeArgs,
               l \in LocalSizeArgs, d \in DeviceArgs,
               ov \in BOOLEAN, n \in NonceArgs, alt \in BOOLEAN :
              /\ nonce_arg' = IF ov THEN << n >> ELSE << >>
              /\ IF \/ StoiThrows(g) \/ StoiThrows(w) \/ StoiThrows(l)
                    \/ StoiThrows(d) \/ (ov /\ StoiThrows(n))
                 THEN /\ Abort
                      /\ UNCHANGED << globalSize, workSetSize, localWorkSize,
                                      nonceOverridden, nonceOverride,
                                      alternativeNonce >>
                 ELSE /\ globalSize' = StoiValue(g)
                      /\ workSetSize' = StoiValue(w)
                      /\ localWorkSize' = StoiValue(l)
                      /\ nonceOverridden' = ov
                      /\ nonceOverride' =
                           IF ov THEN StoiValue(n) ELSE nonceOverride
                      /\ alternativeNonce' = alt
                      /\ pc' = "target"
                      /\ UNCHANGED exitStatus
  /\ UNCHANGED << target_hash, buf, bufsize, last_block_size, global_size,
                  local_size, workset_size, nonce_step_size, start_nonce,
                  steps, found, stdout, initCalls, calls, honoured >>
  /\ UNCHANGED << target_str, stdin, seed_bytes >>
  /\ UNCHANGED refvars

read_target_bytes(str) ==
  [i \in 1..32 |->
     (hexchar2int(str[2 * i - 1]) * 16 + hexchar2int(str[2 * i])) % 256]

\* A target parser that only rejects strings that are too short.
TargetLengthOk_AtLeast(str) == Len(str) >= 64

\* assert(strlen(str) == 64), line 62.
TargetLengthOk(str) == Len(str) = 64

\* Target parsing, lines 167 and 61-68: the length assertion, then
\* the bytes from hexchar2int of each of the 64 characters. Without an operand
\* argv[optind] is a null pointer, which strlen reads through.
ReadTarget ==
  /\ pc = "target"
  /\ \E operand \in TargetOperands :
       IF operand = << >>
       THEN Crash /\ UNCHANGED << target_str, target_hash >>
       ELSE LET str == operand[1]
            IN /\ target_str' = str
               /\ IF ~TargetLengthOk(str)
                  THEN Abort /\ UNCHANGED target_hash
                  ELSE /\ target_hash' = read_target_bytes(str)
                       /\ pc' = "header"
                       /\ UNCHANGED exitStatus
  /\ UNCHANGED << globalSize, workSetSize, localWorkSize, nonceOverridden,
                  nonceOverride, alternativeNonce, buf, bufsize,
                  last_block_size, global_size, local_size, workset_size,
                  nonce_step_size, start_nonce, steps, found, stdout,
                  initCalls, calls, honoured >>
  /\ UNCHANGED << nonce_arg, stdin, seed_bytes >>
  /\ UNCHANGED refvars

\* Assertions that only bound the header length by the buffer size.
HeaderLengthOk_BufferOnly(n) == n >= 8 /\ n < BUF_SIZE

\* The three assertions on bufsize, lines 183, 184 and 196.
HeaderLengthOk(n) ==
  /\ n >= 8
  /\ n < BUF_SIZE
  /\ 320 - 64 + 1 <= n /\ n <= 320

\* Header input, lines 180-198: fread, the three assertions, the zero padding
\* of buf[bufsize .. 320).
ReadHeader ==
  /\ pc = "header"
  /\ \E stream \in StdinStreams :
       /\ stdin' = stream
       /\ LET n == IF Len(stream) < BUF_SIZE THEN Len(stream) ELSE BUF_SIZE
          IN IF ~HeaderLengthOk(n)
             THEN Abort /\ UNCHANGED << buf, bufsize, last_block_size >>
             ELSE /\ bufsize' = n
                  /\ last_block_size' = n - (320 - 64)
                  /\ buf' = [i \in 1..320 |->
                               IF i <= n THEN stream[i] ELSE 0]
                  /\ pc' = "config"
                  /\ UNCHANGED exitStatus
  /\ UNCHANGED << globalSize, workSetSize, localWorkSize, nonceOverridden,
                  nonceOverride, alternativeNonce, target_hash, global_size,
                  local_size, workset_size, nonce_step_size, start_nonce,
                  steps, found, stdout, initCalls, calls, honoured >>
  /\ UNCHANGED << nonce_arg, target_str, seed_bytes >>
  /\ UNCHANGED refvars

\* A main that seeds start_nonce from the entropy source even when an
\* override is given.
Configure_IgnoresOverride ==
  /\ pc = "config"
  /\ global_size' = IntToU64(globalSize)
  /\ local_size' = IntToU64(localWorkSize)
  /\ workset_size' = IntToU64(workSetSize)
  /\ nonce_step_size' = Mul64(IntToU64(globalSize), IntToU64(workSetSize))
  /\ IF FALSE
     THEN /\ start_nonce' = IntToU64(nonceOverride)
          /\ pc' = "backend"
          /\ UNCHANGED << seed_bytes, exitStatus >>
     ELSE \E opened \in BOOLEAN :
            IF opened
            THEN \E rd \in EntropySeeds \cup ShortReads :
                   /\ start_nonce' = rd \o SubSeq(Zero64, Len(rd) + 1, 8)
                   /\ seed_bytes' = Len(rd)
                   /\ pc' = "backend"
                   /\ UNCHANGED exitStatus
            ELSE \E crash \in BOOLEAN :
                   /\ seed_bytes' = 0
                   /\ UNCHANGED start_nonce
                   /\ IF crash
                      THEN Crash
                      ELSE pc' = "backend" /\ UNCHANGED exitStatus
  /\ UNCHANGED << globalSize, workSetSize, localWorkSize, nonceOverridden,
                  nonceOverride, alternativeNonce, target_hash, buf, bufsize,
                  last_block_size, steps, found, stdout, initCalls, calls,
                  honoured >>
  /\ UNCHANGED << nonce_arg, target_str, stdin >>
  /\ UNCHANGED refvars

\* Sizes, window size and first nonce, lines 202-218. Without -n the seed
\* is whatever fread obtains from /dev/urandom: its return value is not
\* looked at, so after a short read the remaining bytes of start_nonce keep
\* their initial 0. When fopen fails, fread and fclose are called on a null
\* FILE*: the process crashes, or the calls return without reading.
Configure ==
  /\ pc = "config"
  /\ global_size' = IntToU64(globalSize)
  /\ local_size' = IntToU64(localWorkSize)
  /\ workset_size' = IntToU64(workSetSize)
  /\ nonce_step_size' = Mul64(IntToU64(globalSize), IntToU64(workSetSize))
  /\ IF nonceOverridden
     THEN /\ start_nonce' = IntToU64(nonceOverride)
          /\ pc' = "backend"
          /\ UNCHANGED << seed_bytes, exitStatus >>
     ELSE \E opened \in BOOLEAN :
            IF opened
            THEN \E rd \in EntropySeeds \cup ShortReads :
                   /\ start_nonce' = rd \o SubSeq(Zero64, Len(rd) + 1, 8)
                   /\ seed_bytes' = Len(rd)
                   /\ pc' = "backend"
                   /\ UNCHANGED exitStatus
            ELSE \E crash \in BOOLEAN :
                   /\ seed_bytes' = 0
                   /\ UNCHANGED start_nonce
                   /\ IF crash
                      THEN Crash
                      ELSE pc' = "backend" /\ UNCHANGED exitStatus
  /\ UNCHANGED << globalSize, workSetSize, localWorkSize, nonceOverridden,
                  nonceOverride, alternativeNonce, target_hash, buf, bufsize,
                  last_block_size, steps, found, stdout, initCalls, calls,
                  honoured >>
  /\ UNCHANGED << nonce_arg, target_str, stdin >>
  /\ UNCHANGED refvars

\* A main that enters the loop without calling backend.start_search.
StartSearch_NoInit ==
  /\ pc = "backend"
  /\ steps' = 0
  /\ pc' = "searching"
  /\ UNCHANGED << globalSize, workSetSize, localWorkSize, nonceOverridden,
                  nonceOverride, alternativeNonce, target_hash, buf, bufsize,
                  last_block_size, global_size, local_size, workset_size,
                  nonce_step_size, start_nonce, found, stdout, exitStatus,
                  initCalls, calls, honoured >>
  /\ UNCHANGED envvars
  /\ UNCHANGED refvars

\* Backend construction and backend.start_search, lines 220-226.
StartSearch ==
  /\ pc = "backend"
  /\ initCalls' = Append(initCalls,
                         << global_size, local_size, workset_size, buf,
                            target_hash >>)
  /\ steps' = 0
  /\ pc' = "searching"
  /\ UNCHANGED << globalSize, workSetSize, localWorkSize, nonceOverridden,
                  nonceOverride, alternativeNonce, target_hash, buf, bufsize,
                  last_block_size, global_size, local_size, workset_size,
                  nonce_step_size, start_nonce, found, stdout, exitStatus,
                  calls, honoured >>
  /\ UNCHANGED envvars
  /\ UNCHANGED refvars

\* The bytes the verification guard hashes for a candidate, lines 239-245.
guard_input(f) ==
  IF alternativeNonce
  THEN SubSeq(buf, 1, bufsize - 8) \o f
  ELSE f \o SubSeq(buf, 8 + 1, 8 + (bufsize - 8))

\* The digest the verification guard recomputes, lines 236-246.
guard_hash(f) == blake2s(guard_input(f))

\* A guard that compares the digest against the target the wrong way round.
BadNonce_Swapped(f) == compare_uint256(guard_hash(f), target_hash) = -1

\* The guard's test, line 248.
BadNonce(f) == compare_uint256(target_hash, guard_hash(f)) = -1

\* The answer the dispatch contract prescribes for a window: the first nonce
\* of [start, start + w) whose digest passes the comparator, or the
\* sentinel 0.
RECURSIVE FirstSatisfying(_, _, _)
FirstSatisfying(start, j, w) ==
  IF j >= w THEN Zero64
  ELSE LET n == Add64(start, U64(j))
       IN IF Passes(target_hash,
                    HashOracle(n, buf, bufsize, alternativeNonce)) THEN n
          ELSE FirstSatisfying(start, j + 1, w)

ContractAnswer(start) == FirstSatisfying(start, 0, Small(nonce_step_size))

\* Values backend.continue_search may return: the backend is opaque.
BackendAnswers(start) ==
  { Zero64, start, Add64(start, U64(1)), U64(3) }
  \cup (IF IsSmall(nonce_step_size, MaxScan) THEN {ContractAnswer(start)}
        ELSE {})

\* A loop that treats a rejected candidate as a miss and resumes the search.
OnBadNonce_Resume(f) ==
  /\ start_nonce' = Add64(start_nonce, nonce_step_size)
  /\ UNCHANGED << pc, stdout, exitStatus >>

\* Lines 249-253.
OnBadNonce(f) ==
  /\ pc' = "fault"
  /\ exitStatus' = << 255 >>
  /\ UNCHANGED << stdout, start_nonce >>

\* What printf's %ld writes for a uint64_t, line 260: the same 64 bits read
\* as a signed long, as a sign and a magnitude.
PrintLd(x) ==
  IF x[8] >= 128
  THEN [neg |-> TRUE,
        mag |-> Add64(<< 255 - x[1], 255 - x[2], 255 - x[3], 255 - x[4],
                         255 - x[5], 255 - x[6], 255 - x[7], 255 - x[8] >>,
                      U64(1))]
  ELSE [neg |-> FALSE, mag |-> x]

\* Lines 256-261 and 267.
OnVerified(f) ==
  /\ stdout' = Append(stdout,
                      [nonce |-> f,
                       numHashes |->
                         PrintLd(Mul64(IntToU64(steps'), nonce_step_size))])
  /\ pc' = "done"
  /\ exitStatus' = << 0 >>
  /\ UNCHANGED start_nonce

\* Lines 262-264.
OnMiss ==
  /\ start_nonce' = Add64(start_nonce, nonce_step_size)
  /\ UNCHANGED << pc, stdout, exitStatus >>

\* A loop that writes the candidate into the header buffer before hashing it.
Iterate_EmbedsNonce ==
  /\ pc = "searching"
  /\ steps < MaxSteps
  /\ \E f \in BackendAnswers(start_nonce) :
       /\ steps' = steps + 1
       /\ calls' = Append(calls, start_nonce)
       /\ found' = f
       /\ buf' = IF f # Zero64 THEN f \o SubSeq(buf, 9, 320) ELSE buf
       /\ honoured' = (/\ honoured
                       /\ IsSmall(nonce_step_size, MaxScan)
                       /\ f = ContractAnswer(start_nonce))
       /\ IF f # Zero64
          THEN IF BadNonce(f) THEN OnBadNonce(f) ELSE OnVerified(f)
          ELSE OnMiss
  /\ UNCHANGED << globalSize, workSetSize, localWorkSize, nonceOverridden,
                  nonceOverride, alternativeNonce, target_hash, bufsize,
                  last_block_size, global_size, local_size, workset_size,
                  nonce_step_size, initCalls >>
  /\ UNCHANGED envvars
  /\ UNCHANGED refvars

\* One iteration of the search loop, lines 227-265.
Iterate ==
  /\ pc = "searching"
  /\ steps < MaxSteps
  /\ \E f \in BackendAnswers(start_nonce) :
       /\ steps' = steps + 1
       /\ calls' = Append(calls, start_nonce)
       /\ found' = f
       /\ honoured' = (/\ honoured
                       /\ IsSmall(nonce_step_size, MaxScan)
                       /\ f = ContractAnswer(start_nonce))
       /\ IF f # Zero64
          THEN IF BadNonce(f) THEN OnBadNonce(f) ELSE OnVerified(f)
          ELSE OnMiss
  /\ UNCHANGED << globalSize, workSetSize, localWorkSize, nonceOverridden,
                  nonceOverride, alternativeNonce, target_hash, buf, bufsize,
                  last_block_size, global_size, local_size, workset_size,
                  nonce_step_size, initCalls >>
  /\ UNCHANGED envvars
  /\ UNCHANGED refvars

Next ==
  \/ ParseArgs
  \/ ReadTarget
  \/ ReadHeader
  \/ Configure
  \/ StartSearch
  \/ Iterate

Spec == Init /\ [][Next]_vars

\* -------------------------------------------------------- ref_search_nonce
\* The G lanes gid = 0 .. G-1 of one window run ref_search_nonce(gid, ...)
\* on the same buf, last_block_size and target_hash and one result array;
\* each step below is one iteration of one lane's for loop.

\* Start values of the window.
RefStarts ==
  { U64(5), IntToU64(-4), IntToU64(-2) }

\* Headers after the zero padding of main, with their last_block_size.
RefHeaders ==
  { [bytes |-> [i \in 1..320 |-> IF i <= Len(st) THEN st[i] ELSE 0],
     lbs |-> Len(st) - (320 - 64)] :
    st \in { HeaderStream(257, "zero"), HeaderStream(300, "ramp") } }

RefTargets == { Rep(255, 32), <<127>> \o Rep(255, 31) }

RefInit ==
  /\ pc = "ref"
  /\ globalSize = 1024 * 1024 * 16
  /\ workSetSize = 64
  /\ localWorkSize = 256
  /\ nonceOverridden = FALSE
  /\ nonceOverride = 0
  /\ alternativeNonce = FALSE
  /\ target_hash \in RefTargets
  /\ \E h \in RefHeaders :
       /\ buf = h.bytes
       /\ last_block_size = h.lbs
       /\ bufsize = (320 - 64) + h.lbs
  /\ global_size = Zero64
  /\ local_size = Zero64
  /\ workset_size = Zero64
  /\ nonce_step_size = Zero64
  /\ start_nonce = Zero64
  /\ steps = 0
  /\ found = Zero64
  /\ stdout = << >>
  /\ exitStatus = << >>
  /\ initCalls = << >>
  /\ calls = << >>
  /\ honoured = TRUE
  /\ nonce_arg = << >>
  /\ target_str = << >>
  /\ stdin = << >>
  /\ seed_bytes = 0
  /\ ref_start \in RefStarts
  /\ \E g \in 1..MaxLanes, k \in 1..MaxWorkSet :
       /\ ref_lanes = g
       /\ ref_work_set = U64(k)
       /\ lane_i = [gid \in 0..(g - 1) |-> 0]
       /\ result = [slot \in 0..(g * k - 1) |-> 2]
       /\ evaluated = [gid \in 0..(g - 1) |-> << >>]
       /\ slot_writers = [slot \in 0..(g * k - 1) |-> << >>]

\* A lane that forgets to scale its index by the work set size.
lane_nonce0_Unscaled(gid, start, work_set) == Add64(start, U64(gid))

\* nonce0, line 79.
lane_nonce0(gid, start, work_set) ==
  Add64(start, Mul64(U64(gid), work_set))

\* The bytes hashed for one nonce, lines 86-89.
ref_input(nonce) ==
  nonce \o SubSeq(buf, 1, (320 - 64 + last_block_size) - 8)

\* A lane that forgets to scale its slot index by the work set size.
result_slot_Unscaled(gid, work_set, i) == gid + i

\* The index into result_ptr, line 92.
result_slot(gid, work_set, i) == gid * work_set + i

\* The value stored in a result slot: compare_uint256's int as a uint8_t.
ToUint8(x) == (x + 256) % 256

\* One iteration of the loop of lane gid, lines 81-93.
ref_search_nonce(gid) ==
  /\ pc = "ref"
  /\ lane_i[gid] < Small(ref_work_set)
  /\ LET i == lane_i[gid]
         nonce == Add64(lane_nonce0(gid, ref_start, ref_work_set), U64(i))
         hash == blake2s(ref_input(nonce))
     IN /\ result' = [result EXCEPT
                        ![result_slot(gid, Small(ref_work_set), i)] =
                          ToUint8(compare_uint256(target_hash, hash))]
        /\ slot_writers' = [slot_writers EXCEPT
                              ![result_slot(gid, Small(ref_work_set), i)] =
                                Append(@, gid)]
        /\ evaluated' = [evaluated EXCEPT ![gid] = Append(@, nonce)]
        /\ lane_i' = [lane_i EXCEPT ![gid] = i + 1]
  /\ UNCHANGED << pc, globalSize, workSetSize, localWorkSize,
                  nonceOverridden, nonceOverride, alternativeNonce,
                  target_hash, buf, bufsize, last_block_size, global_size,
                  local_size, workset_size, nonce_step_size, start_nonce,
                  steps, found, stdout, exitStatus, initCalls, calls,
                  honoured, ref_start, ref_work_set, ref_lanes >>
  /\ UNCHANGED envvars

RefNext == \E gid \in 0..(ref_lanes - 1) : ref_search_nonce(gid)

RefSpec == RefInit /\ [][RefNext]_vars

\* ------------------------------------------------------------------ claims
\* The digest the Hash Oracle gives a nonce in the current run.
RunDigest(n) == HashOracle(n, buf, bufsize, alternativeNonce)

\* C1: every nonce written to standard output is the candidate the backend
\* returned last, and its recomputed digest (same header, same embedding
\* mode) passes the comparator against the target.
C1_ReportedNonceVerified ==
  \A k \in 1..Len(stdout) :
     /\ stdout[k].nonce = found
     /\ Passes(target_hash, RunDigest(stdout[k].nonce))

\* A nonce was reported under a target that some digests fail.
C1_Witness ==
  /\ Len(stdout) = 1
  /\ target_hash[1] = 127
  /\ stdout[1].nonce = found

\* C2: once the backend has returned a candidate whose recomputed digest
\* fails the comparator, the run has ended with a non-zero status, nothing
\* was written to standard output, the start nonce was not advanced and no
\* further continue_search call is possible.
C2_IntegrityFaultFatal ==
  (steps >= 1 /\ found # Zero64 /\ ~Passes(target_hash, RunDigest(found)))
    => /\ pc = "fault"
       /\ exitStatus # << >>
       /\ exitStatus[1] # 0
       /\ stdout = << >>
       /\ Len(calls) = steps
       /\ start_nonce = calls[Len(calls)]
       /\ ~ENABLED Iterate

\* A rejected candidate arrived after at least one missed window.
C2_Witness ==
  /\ pc = "fault"
  /\ steps >= 2
  /\ ~Passes(target_hash, RunDigest(found))

\* C3: consecutive continue_search calls receive start values that strictly
\* increase by exactly W = global_size * workset_size.
C3_WindowsIncreaseByW ==
  \A k \in 1..(Len(calls) - 1) :
     /\ Lt64(calls[k], calls[k + 1])
     /\ ~AddOverflows(calls[k], nonce_step_size)
     /\ calls[k + 1] = Add64(calls[k], nonce_step_size)

\* C4: with a backend that honours the dispatch contract, a first window
\* starting at nonce 0 whose nonce 0 satisfies the target ends the run with
\* nonce 0 reported; with one lane of one nonce, the next window is
\* dispatched at nonce 1 exactly when nonce 0 does not satisfy the target.
C4_ZeroNonceIsAHit ==
  (honoured /\ steps >= 1 /\ calls[1] = Zero64)
    => /\ Passes(target_hash, RunDigest(Zero64))
            => (pc = "done" /\ Len(stdout) = 1 /\ stdout[1].nonce = Zero64)
       /\ (nonce_step_size = U64(1) /\ Len(calls) >= 2)
            => (calls[2] = U64(1)
                /\ ~Passes(target_hash, RunDigest(Zero64)))

\* C5: no window is dispatched at a start value smaller than an earlier one,
\* and a miss whose advance leaves the 64-bit domain ends the search.
C5_NoWrapAround ==
  /\ \A j, k \in 1..Len(calls) : j < k => ~Lt64(calls[k], calls[j])
  /\ \A k \in 1..(Len(calls) - 1) : ~AddOverflows(calls[k], nonce_step_size)

\* C6: a configuration whose product global_size * workset_size does not
\* fit in 64 bits never reaches start_search or continue_search.
C6_OverflowRejected ==
  MulOverflows(global_size, workset_size)
    => (initCalls = << >> /\ calls = << >>)

\* C9: start_search is called at most once, exactly once before the loop is
\* entered, and before every continue_search call.
C9_InitOnceBeforeDispatch ==
  /\ Len(initCalls) <= 1
  /\ calls # << >> => Len(initCalls) = 1
  /\ pc \in {"searching", "done", "fault"} => Len(initCalls) = 1

\* Several windows were dispatched after the one initialisation.
C9_Witness == Len(calls) >= 2 /\ Len(initCalls) = 1

\* C10: with positive sizes, the reported hashes-attempted figure is the
\* number of continue_search calls times W, as a mathematical product.
C10_HashesAttempted ==
  (globalSize > 0 /\ workSetSize > 0)
    => \A k \in 1..Len(stdout) :
          /\ ~stdout[k].numHashes.neg
          /\ stdout[k].numHashes.mag =
               Mul64(U64(Len(calls)), nonce_step_size)
          /\ ~MulOverflows(U64(Len(calls)), nonce_step_size)

\* The window of the reference search lies inside the 64-bit nonce domain.
RefWindowFits ==
  ~AddOverflows(ref_start, U64(ref_lanes * Small(ref_work_set) - 1))

RefAllDone == \A gid \in 0..(ref_lanes - 1) : lane_i[gid] = Small(ref_work_set)

\* C7: in prefix mode the reference lane computation and the verification
\* guard of main hash the same bytes for every nonce the lanes evaluate, so
\* every slot marked as passing holds a nonce the guard accepts.
C7_SameBytesAsGuard ==
  \A gid \in 0..(ref_lanes - 1) :
    \A j \in 1..Len(evaluated[gid]) :
       /\ ref_input(evaluated[gid][j]) = guard_input(evaluated[gid][j])
       /\ result[gid * Small(ref_work_set) + (j - 1)] # 255
            => ~BadNonce(evaluated[gid][j])

\* C8: lane i evaluates the nonces S + i*K + j for j = 0 .. K-1 in that
\* order, increasing when the window lies inside the nonce domain, and once
\* all lanes are done the evaluated nonces are exactly the G*K nonces
\* S .. S + G*K - 1, each evaluated once.
C8_PartitionCoverage ==
  /\ \A gid \in 0..(ref_lanes - 1) :
       \A j \in 1..Len(evaluated[gid]) :
          /\ evaluated[gid][j]
               = Add64(ref_start, U64(gid * Small(ref_work_set) + (j - 1)))
          /\ (RefWindowFits /\ j > 1)
               => Lt64(evaluated[gid][j - 1], evaluated[gid][j])
  /\ RefAllDone =>
       /\ \A gid \in 0..(ref_lanes - 1) :
            Len(evaluated[gid]) = Small(ref_work_set)
       /\ { evaluated[gid][j] : gid \in 0..(ref_lanes - 1),
                                j \in 1..Small(ref_work_set) }
            = { Add64(ref_start, U64(m)) :
                  m \in 0..(ref_lanes * Small(ref_work_set) - 1) }
       /\ \A g1, g2 \in 0..(ref_lanes - 1) :
            \A j1, j2 \in 1..Small(ref_work_set) :
               evaluated[g1][j1] = evaluated[g2][j2]
                 => (g1 = g2 /\ j1 = j2)

\* All lanes of a window of several lanes and several nonces per lane that
\* ends at the top of the nonce domain have finished.
C8_Witness ==
  /\ pc = "ref"
  /\ RefAllDone
  /\ ref_lanes = 2
  /\ ref_work_set = U64(2)
  /\ ref_start = IntToU64(-4)

\* C11: the run gets past the header input, initialises the backend and
\* dispatches only for a header of 257 to 320 bytes, whose bytes are then in
\* buf unchanged and followed by zeros up to offset 320; a stream of any
\* other length ends the run with a non-zero status before any backend call.
C11_HeaderLengthGuard ==
  /\ (initCalls # << >> \/ calls # << >>
        \/ pc \in {"config", "backend", "searching", "done", "fault"})
       => /\ Len(stdin) >= 257 /\ Len(stdin) <= 320
          /\ bufsize = Len(stdin)
          /\ \A i \in 1..320 :
               buf[i] = IF i <= Len(stdin) THEN stdin[i] ELSE 0
  /\ (stdin # << >> /\ ~(Len(stdin) >= 257 /\ Len(stdin) <= 320))
       => /\ pc = "aborted"
          /\ exitStatus # << >> /\ exitStatus[1] # 0
          /\ initCalls = << >> /\ calls = << >>

\* A window was dispatched for a header of the minimum length whose last
\* byte is not zero.
C11_Witness ==
  /\ calls # << >>
  /\ Len(stdin) = 257
  /\ buf[257] # 0
  /\ buf[258] = 0

\* C12: start_search and continue_search are reached only with -g, -l and -w
\* all positive, and consecutive windows never start at the same nonce.
C12_PositiveSizes ==
  /\ (initCalls # << >> \/ calls # << >>)
       => (globalSize > 0 /\ localWorkSize > 0 /\ workSetSize > 0)
  /\ \A k \in 1..(Len(calls) - 1) : calls[k + 1] # calls[k]

\* C13, for a source that opens and ends early: without -n, a run whose
\* entropy source gave some but fewer than 8 bytes never reaches
\* start_search or continue_search. (When the source cannot be opened the
\* outcome is that of fread on a null FILE*.)
C13_EntropyFailureFatal ==
  (~nonceOverridden /\ seed_bytes > 0 /\ seed_bytes < 8)
    => (initCalls = << >> /\ calls = << >>)

\* The assertion of line 62: the run gets past target parsing only for a
\* target string of exactly 64 characters; a string of any other length ends
\* the run with a non-zero status before the header is read and before any
\* backend call.
TargetLengthGuard ==
  /\ (target_hash # << >> \/ stdin # << >> \/ initCalls # << >>
        \/ pc \in {"header", "config", "backend", "searching", "done",
                   "fault"})
       => Len(target_str) = 64
  /\ (target_str # << >> /\ Len(target_str) # 64)
       => /\ pc = "aborted"
          /\ exitStatus # << >> /\ exitStatus[1] # 0
          /\ target_hash = << >>
          /\ stdin = << >> /\ buf = << >>
          /\ initCalls = << >> /\ calls = << >>

\* C15: with a backend that honours the dispatch contract, a non-zero nonce
\* n = start + j that satisfies the target makes the run end in Found, with
\* a verified nonce reported, within floor(j / W) + 1 dispatches; and the
\* loop is left only with a verified nonce reported or with a failure status.
C15_FoundWithinBound ==
  /\ (honoured /\ calls # << >> /\ Small(nonce_step_size) >= 1)
       => \A j \in 0..(Len(calls) * Small(nonce_step_size) - 1) :
            LET n == Add64(calls[1], U64(j))
            IN (/\ ~AddOverflows(calls[1], U64(j))
                /\ n # Zero64
                /\ Passes(target_hash, RunDigest(n))
                /\ Len(calls) >= (j \div Small(nonce_step_size)) + 1)
                 => /\ pc = "done"
                    /\ Len(stdout) = 1
                    /\ Passes(target_hash, RunDigest(stdout[1].nonce))
  /\ pc = "done"
       => (Len(stdout) = 1
           /\ Passes(target_hash, RunDigest(stdout[1].nonce)))
  /\ pc = "fault" => (exitStatus # << >> /\ exitStatus[1] # 0)

\* C16: lane gid of ref_search_nonce writes only the result slots
\* gid * K .. gid * K + K - 1, every slot is written at most once, and once
\* every lane has finished each slot i * K + j has been written exactly once,
\* by lane i, and holds the comparator's outcome for nonce S + i * K + j
\* whatever the order in which the lanes ran.
C16_LanesDisjoint ==
  pc = "ref" =>
    /\ \A slot \in DOMAIN slot_writers :
         /\ Len(slot_writers[slot]) <= 1
         /\ \A w \in 1..Len(slot_writers[slot]) :
              LET gid == slot_writers[slot][w]
              IN /\ gid * Small(ref_work_set) <= slot
                 /\ slot <= gid * Small(ref_work_set) + Small(ref_work_set) - 1
         /\ slot_writers[slot] = << >> => result[slot] = 2
    /\ RefAllDone =>
         \A i \in 0..(ref_lanes - 1) : \A j \in 0..(Small(ref_work_set) - 1) :
           LET slot == i * Small(ref_work_set) + j
           IN /\ slot_writers[slot] = << i >>
              /\ result[slot] =
                   ToUint8(compare_uint256(target_hash,
                     blake2s(ref_input(Add64(ref_start, U64(slot))))))

C16_Witness ==
  /\ pc = "ref" /\ RefAllDone
  /\ ref_lanes >= 2 /\ Small(ref_work_set) >= 2
  /\ \E s, t \in DOMAIN result : result[s] # result[t]

\* C17: from the call to start_search until the run ends, every step leaves
\* the header bytes, the header length, the target digest, the embedding mode
\* and the window size W unchanged; the window start either stays or
\* advances by W, and the window counter either stays or grows by one.
C17_SearchFrame ==
  [][ (pc \in {"backend", "searching", "done", "fault"})
        => (/\ buf' = buf
            /\ bufsize' = bufsize
            /\ last_block_size' = last_block_size
            /\ target_hash' = target_hash
            /\ alternativeNonce' = alternativeNonce
            /\ nonce_step_size' = nonce_step_size
            /\ global_size' = global_size
            /\ local_size' = local_size
            /\ workset_size' = workset_size
            /\ start_nonce' \in {start_nonce,
                                 Add64(start_nonce, nonce_step_size)}
            /\ steps' \in {steps, steps + 1})
    ]_vars

C17_Witness ==
  /\ pc = "done"
  /\ steps >= 2
  /\ start_nonce # calls[1]
  /\ found # Zero64

\* C18: with a nonce override given, the first dispatch receives exactly the
\* override's value, and everything the run produces is a function of the
\* inputs and of the backend's answers: the k-th window start is the override
\* plus (k - 1) * W, the reported nonce is the backend's last answer and the
\* hashes-attempted count is the number of dispatches times W.
C18_OverrideDeterministic ==
  (nonceOverridden /\ calls # << >>) =>
    LET a == nonce_arg[1]
        W == Mul64(IntToU64(globalSize), IntToU64(workSetSize))
    IN /\ IF a.neg THEN Add64(calls[1], a.mag) = Zero64
                   ELSE calls[1] = a.mag
       /\ \A k \in 1..Len(calls) :
            calls[k] = Add64(calls[1], Mul64(U64(k - 1), W))
       /\ stdout # << >>
            => stdout = << [nonce |-> found,
                            numHashes |->
                              PrintLd(Mul64(U64(Len(calls)), W))] >>
       /\ (pc = "done") = (found # Zero64 /\ ~BadNonce(found))
       /\ (pc = "fault") = (found # Zero64 /\ BadNonce(found))

C18_Witness ==
  /\ nonceOverridden
  /\ nonce_arg[1].neg
  /\ Len(calls) >= 2
  /\ calls[1] = IntToU64(-1)
  /\ pc = "done"

====
